---- MODULE Spec2Model ----
(***************************************************************************)
(* AutoServe: the ML scaling controller (src/ml-controller/controller.py)  *)
(* and the worker's periodic collection (src/apps/worker/tasks.py).        *)
(*                                                                         *)
(* Time is in seconds.  Confidence is in hundredths (0.7 is 70, 0.95 is    *)
(* 95), rounded down, which keeps every comparison with the threshold.     *)
(* A dictionary key that a return path does not set is the value "absent". *)
(* Percentages of the worker's alert thresholds are in tenths (80.1 is     *)
(* 801).                                                                   *)
(***************************************************************************)
EXTENDS Integers, Sequences, FiniteSets

VARIABLES clock, ticks, k8s_apps_v1, models, last_scaling_times, replicas,
          result, executed_at, cycle, tasks, running, alerting, processing,
          training, lifecycle

vars == <<clock, ticks, k8s_apps_v1, models, last_scaling_times, replicas,
          result, executed_at, cycle, tasks, running, alerting, processing,
          training, lifecycle>>

(* ------------------------------ configuration -------------------------- *)

\* SCALING_COOLDOWN, seconds
scaling_cooldown == 300

\* CONFIDENCE_THRESHOLD 0.7, in hundredths
confidence_threshold == 70

\* the clamp of the predicted replica count
MinReplicas == 1
MaxReplicas == 10

\* the confidence clamp min(0.95, max(0.5, .)), in hundredths
ConfidenceFloor == 50
ConfidenceCap == 95

\* the monitored services, in the order both periodic loops walk them
services == <<"frontend", "backend-api", "background-worker">>

Services == {services[i] : i \in 1..Len(services)}

(* -------------------------------- bounds ------------------------------- *)

\* how many times the clock advances in a behaviour
MaxTicks == 2

\* how many periodic cycles a behaviour runs
MaxCycles == 2

\* how many /predict requests can be in the server at once
NumHandlers == 2

\* how many times load_models runs after the start of the process
MaxRetrains == 2

\* the clock advances by one second or by one second less than the cooldown
TickSteps == {1, scaling_cooldown - 1}

\* time.time() when the process starts: far more than a cooldown after the epoch
StartTime == 2 * scaling_cooldown

\* cpu_usage, memory_usage, request_rate, response_time of a request or a fetch
MetricInputs == {<<0, 0, 0, 0>>, <<5, 4, 4, 2>>, <<4, 3, 2, 2>>}

\* current_metrics of a request that carries none: the empty dictionary
NoMetrics == <<>>

\* what Prometheus answers to the four feature queries when it answers
PrometheusAnswers == <<5, 4, 4, 2>>

\* the queries whose values become the features: cpu_usage, memory_usage,
\* request_rate, response_time
Queries == 1..4

\* the service names the requests carry
RequestServices == {services[1], services[2]}

\* int(round(model.predict(...)[0])) for an opaque model
RawPredictions == {0, 4, 57}

\* the replica counts a manual /scale request asks for
ManualReplicas == {0, 11}

(* ------------------------------ pure helpers --------------------------- *)

Max(a, b) == IF a >= b THEN a ELSE b

Min(a, b) == IF a <= b THEN a ELSE b

\* max(1, min(10, predicted_replicas))
Clamp(n) == Max(MinReplicas, Min(MaxReplicas, n))

\* min(0.95, max(0.5, 1 - std(f)/(mean(f) + 1e-6))) in hundredths, rounded down.
\* With S the sum and Q the sum of squares of the four features,
\* std/mean = sqrt(4Q - S^2)/S, so 1 - std/mean >= c/100 is
\* (100-c)^2 * S^2 >= 10^4 * (4Q - S^2).  All features 0: std = 0, stability 1.
Confidence(features) ==
    LET S == features[1] + features[2] + features[3] + features[4]
        Q == features[1] * features[1] + features[2] * features[2]
             + features[3] * features[3] + features[4] * features[4]
        AtLeast(c) == (100 - c) * (100 - c) * S * S >= 10000 * (4 * Q - S * S)
    IN  IF S = 0 THEN ConfidenceCap
        ELSE IF ~AtLeast(ConfidenceFloor) THEN ConfidenceFloor
        ELSE CHOOSE c \in ConfidenceFloor..ConfidenceCap :
                 AtLeast(c) /\ (c = ConfidenceCap \/ ~AtLeast(c + 1))

\* the confidence of each input, computed once
ConfidenceOf == [m \in MetricInputs |-> Confidence(m)]

\* mutant: the lookup misses the key and always yields the default
LastScalingDefault(s) == 0

\* mutant: a service with no entry counts as scaled just now
LastScalingNow(s) == IF s \in DOMAIN last_scaling_times THEN last_scaling_times[s] ELSE clock

\* self.last_scaling_times.get(service_name, 0)
LastScaling(s) == IF s \in DOMAIN last_scaling_times THEN last_scaling_times[s] ELSE 0

(* ------------------------------ orchestrator --------------------------- *)

\* the queries that can fail in one fetch: none, or all of them when Prometheus
\* cannot be reached; a call that was given metrics does not fetch
FetchFailures(current_metrics) ==
    IF current_metrics = NoMetrics THEN {{}, Queries} ELSE {{}}

\* get_prometheus_metrics: a query that fails, answers another status than 200
\* or has no result yields 0.0 for its metric; nothing is raised
GetPrometheusMetrics(failed) ==
    LET value(i) == IF i \in failed THEN 0 ELSE PrometheusAnswers[i]
    IN  <<value(1), value(2), value(3), value(4)>>

\* what became of the fetch of a call: "none" when the request carried metrics
FetchOutcome(current_metrics, failed) ==
    IF current_metrics # NoMetrics THEN "none"
    ELSE IF failed = {} THEN "ok"
    ELSE "failed"

\* mutant: a failed read counts as no replica at all
GetCurrentReplicasZero(s, read_fails) ==
    IF ~k8s_apps_v1 THEN 0
    ELSE IF read_fails THEN 0
    ELSE IF replicas[s] = 0 THEN 1
    ELSE replicas[s]

\* get_current_replicas: 1 without a client or when the read raises,
\* else deployment.spec.replicas or 1
GetCurrentReplicas(s, read_fails) ==
    IF ~k8s_apps_v1 THEN 1
    ELSE IF read_fails THEN 1
    ELSE IF replicas[s] = 0 THEN 1
    ELSE replicas[s]

\* how get_current_replicas came to its answer
ReplicaRead(read_fails) ==
    IF ~k8s_apps_v1 THEN "no_client"
    ELSE IF read_fails THEN "raised"
    ELSE "ok"

\* what can go wrong inside scale_deployment when a client exists: nothing, the
\* read of the deployment raises, or the patch raises
ScaleFaults == IF k8s_apps_v1 THEN {"none", "read", "patch"} ELSE {"none"}

\* the "status" of the dictionary scale_deployment returns (it never raises)
ScaleStatus(fault) ==
    IF ~k8s_apps_v1 THEN "simulated"
    ELSE IF fault = "none" THEN "success"
    ELSE "error"

\* whether patch_namespaced_deployment was called: the set-replicas command
\* reached the orchestrator
PatchRequested(fault) == k8s_apps_v1 /\ fault \in {"none", "patch"}

\* the deployments after scale_deployment(s, n)
ReplicasAfterScale(s, n, fault) ==
    IF ScaleStatus(fault) = "success" THEN [replicas EXCEPT ![s] = n] ELSE replicas

\* seconds a scale_deployment call may take
ScaleLatencies == IF ticks < MaxTicks THEN {0, 1} ELSE {0}

(* ----------------------------- decision policy ------------------------- *)

\* mutant: an equal count already counts as an increase
ActionAtLeast(predicted_replicas, current_replicas) ==
    IF predicted_replicas >= current_replicas THEN "scale_up"
    ELSE IF predicted_replicas < current_replicas THEN "scale_down"
    ELSE "none"

\* lines 279-288
Action(predicted_replicas, current_replicas) ==
    IF predicted_replicas > current_replicas THEN "scale_up"
    ELSE IF predicted_replicas < current_replicas THEN "scale_down"
    ELSE "none"

Reason(predicted_replicas, current_replicas) ==
    IF predicted_replicas > current_replicas THEN "Predicted load increase"
    ELSE IF predicted_replicas < current_replicas THEN "Predicted load decrease"
    ELSE "Current scaling is optimal"

\* mutant: the window is taken in minutes, not seconds
CooldownActiveMinutes(s, now) == now - LastScaling(s) < scaling_cooldown \div 60

\* lines 291-292
CooldownActive(s, now) == now - LastScaling(s) < scaling_cooldown

\* lines 291-294: inside the cooldown the action becomes none
GatedAction(cooldown, predicted_replicas, current_replicas) ==
    IF cooldown THEN "none" ELSE Action(predicted_replicas, current_replicas)

\* mutant: the cooldown leaves the reason of the comparison in place
GatedReasonKept(cooldown, predicted_replicas, current_replicas) ==
    Reason(predicted_replicas, current_replicas)

\* lines 291-294: inside the cooldown the reason becomes the cooldown
GatedReason(cooldown, predicted_replicas, current_replicas) ==
    IF cooldown THEN "Scaling cooldown period active"
    ELSE Reason(predicted_replicas, current_replicas)

\* mutant: the confidence check is left out
ShouldExecuteAnyConfidence(action, confidence, predicted_replicas, current_replicas) ==
    /\ action # "none"
    /\ predicted_replicas # current_replicas

\* mutant: the threshold itself is not enough
ShouldExecuteAboveThreshold(action, confidence, predicted_replicas, current_replicas) ==
    /\ action # "none"
    /\ confidence > confidence_threshold
    /\ predicted_replicas # current_replicas

\* lines 308-310
ShouldExecute(action, confidence, predicted_replicas, current_replicas) ==
    /\ action # "none"
    /\ confidence >= confidence_threshold
    /\ predicted_replicas # current_replicas

\* mutant: the time of the scaling is not recorded
RecordScalingDropped(s, now) == last_scaling_times

\* mutant: one time of the last scaling is kept for all services
RecordScalingAll(s, now) == [x \in Services |-> now]

\* mutant: the dictionary is replaced by one that holds this service only
RecordScalingOnly(s, now) == [x \in {s} |-> now]

\* self.last_scaling_times[service_name] = time.time()
RecordScaling(s, now) ==
    [x \in DOMAIN last_scaling_times \cup {s} |->
        IF x = s THEN now ELSE last_scaling_times[x]]

\* result is what a decide call that has completed and whose HTTP response is
\* not yet sent left behind: the dictionary it returned (or that it raised), its
\* inputs, and what it did to the orchestrator; now is the time the call saw and
\* last_scaling the value of last_scaling_times.get(service_name, 0) when it
\* started.  It is NoCall when no response is pending.  The handlers are
\* coroutines of one event loop and none of them
\* suspends (every await is on a coroutine that runs blocking code), so a handler
\* runs to its end before the next one starts.
NoCall ==
    [service_name |-> "", outcome |-> "none", path |-> "none",
     current_replicas |-> 0, recommended_replicas |-> 0, confidence |-> 0,
     reason |-> "", action |-> "", executed |-> "absent", timestamp |-> 0, now |-> 0,
     last_scaling |-> 0, metrics |-> <<0, 0, 0, 0>>, raw |-> 0,
     scale_status |-> "not_called", patch_requested |-> FALSE,
     fetch |-> "none", replica_read |-> "ok"]

\* lines 245-253: the dictionary has no "timestamp" and no "executed"
NoModelResult(s, current, m) ==
    [NoCall EXCEPT !.service_name = s,
                   !.outcome = "returned", !.path = "no_model",
                   !.current_replicas = current,
                   !.recommended_replicas = current,
                   !.confidence = 0, !.reason = "No ML model available",
                   !.action = "none", !.executed = "absent",
                   !.last_scaling = LastScaling(s), !.now = clock,
                   !.metrics = m]

\* lines 321-323: the exception is logged and raised again
RaisedResult(s, current, m) ==
    [NoCall EXCEPT !.service_name = s,
                   !.outcome = "raised", !.path = "predict_failed",
                   !.current_replicas = current,
                   !.last_scaling = LastScaling(s), !.now = clock,
                   !.metrics = m]

\* lines 296-305 and 314/316
Prediction(s, current, predicted, conf, reason, action, executed, now, m, raw, status, patched) ==
    [service_name |-> s, outcome |-> "returned",
     path |-> "normal", current_replicas |-> current,
     recommended_replicas |-> predicted, confidence |-> conf, reason |-> reason,
     action |-> action, executed |-> executed, timestamp |-> now, now |-> now,
     last_scaling |-> LastScaling(s), metrics |-> m, raw |-> raw,
     scale_status |-> status, patch_requested |-> patched,
     fetch |-> "none", replica_read |-> "ok"]

\* r with what the call's two reads did: the fetch of the metrics and the read
\* of the replica count
Traced(r, fetch, replica_read) ==
    [r EXCEPT !.fetch = fetch, !.replica_read = replica_read]

\* a handler slot with no request in it
Idle == [pc |-> "idle", service_name |-> ""]

\* no check_metric_alerts call has run
NoAlerting ==
    [called |-> FALSE, service_name |-> "",
     metrics |-> [avg_cpu |-> 0, avg_memory |-> 0, request_count |-> 0,
                  error_count |-> 0],
     error_rate |-> [num |-> 0, den |-> 1, error |-> "none"], alerts |-> <<>>,
     outcome |-> "none", sent |-> 0]

\* the dictionary of lines 77-86 when it was not built
NoSummary ==
    [avg_cpu |-> 0, max_cpu |-> 0, avg_memory |-> 0, max_memory |-> 0,
     request_count |-> 0, error_count |-> 0]

\* no process_metrics call has run: there is no call to describe
NoProcessing == [called |-> FALSE]

\* the training generation of self.models['scaling_predictor'] and of
\* self.scalers['scaling_predictor']: 0 is what the load_models call of __init__
\* (line 61) left, the pair it fitted or, when it failed, neither key.  pc is
\* where a running load_models stands, building the generation it trains, loads
\* how many times it was called since, last how the latest call ended and
\* prev_* the pair it found.  used_* is the pair the latest inference read
\* (lines 266-267).
TrainingAtStart ==
    [model |-> 0, scaler |-> 0, pc |-> "idle", building |-> 0, loads |-> 0,
     last |-> "none", prev_model |-> 0, prev_scaler |-> 0, used_model |-> 0,
     used_scaler |-> 0]

(* -------------------------------- actions ------------------------------ *)

Init ==
    /\ clock = StartTime
    /\ ticks = 0
    /\ k8s_apps_v1 \in BOOLEAN
    /\ models \in BOOLEAN
    /\ last_scaling_times = <<>>
    /\ replicas = [s \in Services |-> 1]
    /\ result = NoCall
    /\ executed_at = [s \in Services |-> <<>>]
    /\ cycle = [n |-> 0, kind |-> "none", failed |-> {}, started |-> {}]
    /\ tasks = [h \in 1..NumHandlers |-> Idle]
    /\ running = 0
    /\ alerting = NoAlerting
    /\ processing = NoProcessing
    /\ training = TrainingAtStart
    /\ lifecycle = "running"

\* time passes between two requests
Tick ==
    /\ ticks < MaxTicks
    /\ result = NoCall
    /\ \E d \in TickSteps : clock' = clock + d
    /\ ticks' = ticks + 1
    /\ UNCHANGED <<k8s_apps_v1, models, last_scaling_times, replicas, result,
                   executed_at, cycle>>
    /\ UNCHANGED <<tasks, running, alerting, processing, training, lifecycle>>

\* predict_scaling_decision(s, current_metrics), reached from POST /predict.
\* When the request carried no metrics, get_prometheus_metrics fetches them (a
\* failed query yields 0.0 for its metric).  raw is what the model answers for
\* the metrics.
PredictScalingDecision(s, current_metrics, raw) ==
    /\ \E read_fails \in BOOLEAN, failed \in FetchFailures(current_metrics) :
        LET m == IF current_metrics = NoMetrics THEN GetPrometheusMetrics(failed)
                 ELSE current_metrics
            fetch == FetchOutcome(current_metrics, failed)
            read == ReplicaRead(read_fails)
            current == GetCurrentReplicas(s, read_fails)
        IN
        IF ~models
        THEN /\ result' = Traced(NoModelResult(s, current, m), fetch, read)
             /\ UNCHANGED <<clock, ticks, k8s_apps_v1, models, last_scaling_times,
                            replicas, executed_at, cycle>>
        ELSE \E predict_raises \in BOOLEAN :
            IF predict_raises
            THEN /\ result' = Traced(RaisedResult(s, current, m), fetch, read)
                 /\ UNCHANGED <<clock, ticks, k8s_apps_v1, models,
                                last_scaling_times, replicas, executed_at, cycle>>
            ELSE
                LET predicted == Clamp(raw)
                    conf == ConfidenceOf[m]
                    cooldown == CooldownActive(s, clock)
                    action == GatedAction(cooldown, predicted, current)
                    reason == GatedReason(cooldown, predicted, current)
                IN  IF ShouldExecute(action, conf, predicted, current)
                    THEN \E fault \in ScaleFaults, d \in ScaleLatencies :
                        /\ replicas' = ReplicasAfterScale(s, predicted, fault)
                        /\ clock' = clock + d
                        /\ ticks' = IF d > 0 THEN ticks + 1 ELSE ticks
                        /\ last_scaling_times' = RecordScaling(s, clock + d)
                        /\ result' =
                               Traced(Prediction(s, current, predicted, conf, reason,
                                                 action, "true", clock, m, raw,
                                                 ScaleStatus(fault),
                                                 PatchRequested(fault)),
                                      fetch, read)
                        /\ executed_at' =
                               [executed_at EXCEPT ![s] = Append(@, clock)]
                        /\ UNCHANGED <<k8s_apps_v1, models, cycle>>
                    ELSE /\ result' =
                                Traced(Prediction(s, current, predicted, conf, reason,
                                                  action, "false", clock, m, raw,
                                                  "not_called", FALSE),
                                       fetch, read)
                         /\ UNCHANGED <<clock, ticks, k8s_apps_v1, models,
                                        last_scaling_times, replicas, executed_at,
                                        cycle>>

\* a POST /predict request arrives while no response is pending
PredictRequest ==
    /\ result = NoCall
    /\ \E s \in RequestServices, m \in MetricInputs \cup {NoMetrics},
          raw \in RawPredictions :
           PredictScalingDecision(s, m, raw)
    /\ UNCHANGED <<tasks, running, alerting, processing, training, lifecycle>>

\* the client sends the request it has just sent once more, at once: the same
\* service and metrics (or none again), for which the model answers the same
PredictRepeated ==
    /\ result # NoCall
    /\ result.path = "normal"
    /\ PredictScalingDecision(result.service_name,
                              IF result.fetch = "none" THEN result.metrics
                              ELSE NoMetrics,
                              result.raw)
    /\ UNCHANGED <<tasks, running, alerting, processing, training, lifecycle>>

\* POST /predict hands the dictionary to the client, or answers 500 when the
\* call raised
PredictScaling ==
    /\ result # NoCall
    /\ result' = NoCall
    /\ UNCHANGED <<clock, ticks, k8s_apps_v1, models, last_scaling_times, replicas,
                   executed_at, cycle>>
    /\ UNCHANGED <<tasks, running, alerting, processing, training, lifecycle>>

\* mutant: a manual scaling is recorded like an automatic one
ManualScaleRecorded(s) ==
    /\ result = NoCall
    /\ \E n \in ManualReplicas, fault \in ScaleFaults :
        /\ replicas' = ReplicasAfterScale(s, n, fault)
        /\ last_scaling_times' = RecordScaling(s, clock)
        /\ UNCHANGED <<clock, ticks, k8s_apps_v1, models, result, executed_at, cycle>>
    /\ UNCHANGED <<tasks, running, alerting, processing, training, lifecycle>>

\* POST /scale: scale_deployment(s, n) with no gate and no bookkeeping
ManualScale(s) ==
    /\ result = NoCall
    /\ \E n \in ManualReplicas, fault \in ScaleFaults :
        /\ replicas' = ReplicasAfterScale(s, n, fault)
        /\ UNCHANGED <<clock, ticks, k8s_apps_v1, models, last_scaling_times,
                       result, executed_at, cycle>>
    /\ UNCHANGED <<tasks, running, alerting, processing, training, lifecycle>>

\* POST /models/retrain: load_models assigns the model and the scaler only when
\* training went through; a failure is logged and leaves them as they were
RetrainModels ==
    /\ result = NoCall
    /\ \E load_ok \in BOOLEAN : models' = (IF load_ok THEN TRUE ELSE models)
    /\ UNCHANGED <<clock, ticks, k8s_apps_v1, last_scaling_times, replicas, result,
                   executed_at, cycle>>
    /\ UNCHANGED <<tasks, running, alerting, processing, training, lifecycle>>

(* ---------------------------- periodic cycles -------------------------- *)

\* run_scheduler runs in a plain threading.Thread: no event loop runs in it
SchedulerThreadHasLoop == FALSE

\* asyncio.create_task raises RuntimeError when no event loop is running
CreateTask(has_running_loop) == IF has_running_loop THEN "ok" ELSE "RuntimeError"

\* the services a for loop reached and started when outcome[i] is what starting
\* services[i] did; guarded says whether the try is inside the loop (a failure
\* moves on to the next service) or around it (a failure leaves the loop)
Failures(outcome) == {i \in 1..Len(services) : outcome[i] # "ok"}

Reached(outcome, guarded) ==
    {i \in 1..Len(services) :
        guarded \/ \A j \in 1..(i - 1) : j \notin Failures(outcome)}

CycleRecord(kind, outcome, guarded) ==
    [n |-> cycle.n + 1, kind |-> kind,
     failed |-> {services[i] : i \in Reached(outcome, guarded) \cap Failures(outcome)},
     started |-> {services[i] : i \in Reached(outcome, guarded) \ Failures(outcome)}]

\* run_scheduler is "while True: schedule.run_pending(); time.sleep(30)" in a
\* daemon thread: it looks at no flag and runs for as long as the process lives
SchedulerThreadAlive == lifecycle # "exited"

\* periodic_scaling_check, called by schedule.run_pending in the scheduler thread:
\* one try around the whole loop
PeriodicScalingCheck ==
    /\ cycle.n < MaxCycles
    /\ SchedulerThreadAlive
    /\ cycle' = CycleRecord("scaling_check",
                            [i \in 1..Len(services) |-> CreateTask(SchedulerThreadHasLoop)],
                            FALSE)
    /\ UNCHANGED <<clock, ticks, k8s_apps_v1, models, last_scaling_times, replicas,
                   result, executed_at>>
    /\ UNCHANGED <<tasks, running, alerting, processing, training, lifecycle>>

\* collect_metrics (Celery beat): a try inside the loop around
\* process_metrics.delay, which raises when the broker cannot be reached
CollectMetrics ==
    /\ cycle.n < MaxCycles
    /\ \E outcome \in [1..Len(services) -> {"ok", "OperationalError"}] :
           cycle' = CycleRecord("collect_metrics", outcome, TRUE)
    /\ UNCHANGED <<clock, ticks, k8s_apps_v1, models, last_scaling_times, replicas,
                   result, executed_at>>
    /\ UNCHANGED <<tasks, running, alerting, processing, training, lifecycle>>

(* ------------------------------ the event loop ------------------------- *)

\* The /predict handlers are tasks of the one asyncio event loop uvicorn runs.
\* The loop runs a task until it suspends; running is the handler that holds the
\* loop (0: the loop is free).  pc is where a handler stands:
\*   "idle"            no request
\*   "scheduled"       the task exists and has not run: nothing is read yet
\*   "await_scale"     line 291 has read last_scaling_times and the gate is
\*                     open: at await self.scale_deployment(...), line 312
\*   "done"            returned, response not yet sent
Handlers == 1..NumHandlers

NoHandler == 0

\* mutant: every await gives the loop to the other tasks
AwaitSuspendsAlways(callee) == TRUE

\* whether awaiting the coroutine suspends the handler: get_prometheus_metrics,
\* get_current_replicas and scale_deployment await nothing themselves (they call
\* blocking clients), so the await runs them to their end inside the handler
AwaitSuspends(callee) == FALSE

\* the loop can run handler h: h holds it, or it is free
CanRun(h) == running \in {h, NoHandler}

\* uvicorn accepts a /predict request for s and creates the task of its handler
Accept(h, s) ==
    /\ tasks[h].pc = "idle"
    /\ tasks' = [tasks EXCEPT ![h] = [Idle EXCEPT !.pc = "scheduled",
                                                  !.service_name = s]]
    /\ UNCHANGED <<clock, ticks, k8s_apps_v1, models, last_scaling_times, replicas,
                   result, executed_at, cycle, running, alerting>>
    /\ UNCHANGED <<processing, training, lifecycle>>

\* lines 238-310: the loop runs the handler, whose awaits of
\* get_prometheus_metrics and get_current_replicas do not suspend it; it reads last_scaling_times (line 291); inside the
\* cooldown, or when the gate is closed for another reason, it returns; else it
\* goes on to await scale_deployment
ReadLastScaling(h) ==
    /\ tasks[h].pc = "scheduled"
    /\ CanRun(h)
    /\ \E gate_open \in BOOLEAN :
        LET s == tasks[h].service_name
            goes_on == gate_open /\ ~CooldownActive(s, clock)
        IN  /\ tasks' = [tasks EXCEPT ![h].pc = IF goes_on THEN "await_scale" ELSE "done"]
            /\ running' = IF goes_on /\ ~AwaitSuspends("scale_deployment")
                          THEN h ELSE NoHandler
    /\ UNCHANGED <<clock, ticks, k8s_apps_v1, models, last_scaling_times, replicas,
                   result, executed_at, cycle, alerting>>
    /\ UNCHANGED <<processing, training, lifecycle>>

\* lines 312-314: scale_deployment has returned and the handler writes
\* last_scaling_times, then returns
WriteLastScaling(h) ==
    /\ tasks[h].pc = "await_scale"
    /\ CanRun(h)
    /\ last_scaling_times' = RecordScaling(tasks[h].service_name, clock)
    /\ tasks' = [tasks EXCEPT ![h].pc = "done"]
    /\ running' = NoHandler
    /\ UNCHANGED <<clock, ticks, k8s_apps_v1, models, replicas, result,
                   executed_at, cycle, alerting>>
    /\ UNCHANGED <<processing, training, lifecycle>>

\* the response of a handler that returned is sent
SendResponse(h) ==
    /\ tasks[h].pc = "done"
    /\ tasks' = [tasks EXCEPT ![h] = Idle]
    /\ UNCHANGED <<clock, ticks, k8s_apps_v1, models, last_scaling_times, replicas,
                   result, executed_at, cycle, running, alerting>>
    /\ UNCHANGED <<processing, training, lifecycle>>

(* ------------------------------ alert checking ------------------------- *)

\* the thresholds of check_metric_alerts, percentages in tenths
CpuAlertAbove == 800
CpuHighAbove == 900
MemoryAlertAbove == 850
MemoryHighAbove == 950

\* the thresholds on the error rate, in percent
ErrorRateAlertAbove == 5
ErrorRateCriticalAbove == 10

\* avg_cpu and avg_memory of a summary, in tenths of a percent: each threshold
\* and the next representable value above it
CpuInputs == {CpuAlertAbove, CpuAlertAbove + 1, CpuHighAbove, CpuHighAbove + 1}

MemoryInputs == {MemoryAlertAbove, MemoryAlertAbove + 1, MemoryHighAbove, MemoryHighAbove + 1}

\* request_count and error_count of a summary: rates of 0, 3.3, 5, 6.7, 10 and
\* 15 percent, and no request at all
RequestCounts == {0, 20, 30}

ErrorCounts == {0, 1, 2, 3}

\* the service whose summaries are checked
AlertServices == {services[1]}

\* the dictionaries process_metrics hands over, and dictionaries of another caller
\* that have no "request_count"
Summaries ==
    {[avg_cpu |-> c, avg_memory |-> m, request_count |-> r, error_count |-> e] :
        c \in CpuInputs, m \in MemoryInputs, r \in RequestCounts, e \in ErrorCounts}
    \cup
    {[avg_cpu |-> c, avg_memory |-> m, error_count |-> e] :
        c \in CpuInputs, m \in MemoryInputs, e \in ErrorCounts}

\* metrics.get(key, default)
Get(metrics, key, default) == IF key \in DOMAIN metrics THEN metrics[key] ELSE default

\* a / b * 100 as the fraction num/den; a division by zero raises
Percentage(a, b) ==
    IF b = 0 THEN [num |-> 0, den |-> 1, error |-> "ZeroDivisionError"]
    ELSE [num |-> a * 100, den |-> b, error |-> "none"]

\* lines 124-125: total_requests defaults to 1 when the key is missing
ErrorRate(metrics) ==
    LET total_requests == Get(metrics, "request_count", 1)
    IN  IF total_requests > 0
        THEN Percentage(Get(metrics, "error_count", 0), total_requests)
        ELSE [num |-> 0, den |-> 1, error |-> "none"]

\* rate > percent, for a fraction with a positive denominator
RateAbove(rate, percent) == rate.num > percent * rate.den

\* lines 105-112
CpuAlert(s, metrics) ==
    IF Get(metrics, "avg_cpu", 0) > CpuAlertAbove
    THEN <<[type |-> "cpu_high",
            severity |-> IF metrics.avg_cpu > CpuHighAbove THEN "high" ELSE "medium",
            service |-> s]>>
    ELSE <<>>

\* mutant: the lower threshold itself already raises the alert
MemoryAlertInclusive(s, metrics) ==
    IF Get(metrics, "avg_memory", 0) >= MemoryAlertAbove
    THEN <<[type |-> "memory_high",
            severity |-> IF metrics.avg_memory > MemoryHighAbove THEN "high" ELSE "medium",
            service |-> s]>>
    ELSE <<>>

\* lines 114-121
MemoryAlert(s, metrics) ==
    IF Get(metrics, "avg_memory", 0) > MemoryAlertAbove
    THEN <<[type |-> "memory_high",
            severity |-> IF metrics.avg_memory > MemoryHighAbove THEN "high" ELSE "medium",
            service |-> s]>>
    ELSE <<>>

\* mutant: a rate of exactly the upper threshold is already critical
ErrorRateAlertInclusive(s, rate) ==
    IF RateAbove(rate, ErrorRateAlertAbove)
    THEN <<[type |-> "error_rate_high",
            severity |-> IF rate.num >= ErrorRateCriticalAbove * rate.den
                         THEN "critical" ELSE "high",
            service |-> s]>>
    ELSE <<>>

\* lines 127-133
ErrorRateAlert(s, rate) ==
    IF RateAbove(rate, ErrorRateAlertAbove)
    THEN <<[type |-> "error_rate_high",
            severity |-> IF RateAbove(rate, ErrorRateCriticalAbove)
                         THEN "critical" ELSE "high",
            service |-> s]>>
    ELSE <<>>

\* check_metric_alerts(s, metrics): the alerts are built, then one
\* send_notification.delay per alert; a delay that raises (the broker cannot be
\* reached) ends the loop and the task raises.  sent is how many delay calls
\* went through.
CheckMetricAlerts(s, metrics) ==
    /\ LET error_rate == ErrorRate(metrics)
           alerts == IF error_rate.error # "none" THEN <<>>
                     ELSE CpuAlert(s, metrics) \o MemoryAlert(s, metrics)
                          \o ErrorRateAlert(s, error_rate)
       IN  \E sent \in 0..Len(alerts) :
               alerting' =
                   [called |-> TRUE, service_name |-> s, metrics |-> metrics,
                    error_rate |-> error_rate, alerts |-> alerts,
                    outcome |-> IF error_rate.error # "none" \/ sent < Len(alerts)
                                THEN "raised" ELSE "returned",
                    sent |-> sent]
    /\ UNCHANGED <<clock, ticks, k8s_apps_v1, models, last_scaling_times, replicas,
                   result, executed_at, cycle, tasks, running>>
    /\ UNCHANGED <<processing, training, lifecycle>>

(* ------------------------------- shutdown ------------------------------ *)

\* uvicorn.run receives SIGTERM or SIGINT and starts its graceful shutdown: the
\* requests in flight are answered.  Nothing tells the scheduler thread.
Shutdown ==
    /\ lifecycle = "running"
    /\ lifecycle' = "stopping"
    /\ UNCHANGED <<clock, ticks, k8s_apps_v1, models, last_scaling_times, replicas,
                   result, executed_at, cycle, tasks, running, alerting,
                   processing, training>>

\* uvicorn.run returns and the interpreter exits; the daemon thread of the
\* scheduler ends with it, wherever it stands
Exit ==
    /\ lifecycle = "stopping"
    /\ lifecycle' = "exited"
    /\ UNCHANGED <<clock, ticks, k8s_apps_v1, models, last_scaling_times, replicas,
                   result, executed_at, cycle, tasks, running, alerting,
                   processing, training>>

(* --------------------------- metrics processing ------------------------ *)

\* the lists of a batch, percentages in tenths; their means are whole numbers
CpuBatches == {<<>>, <<CpuAlertAbove>>, <<700, 902>>}

MemoryBatches == {<<>>, <<MemoryAlertAbove>>, <<800, 902>>}

RequestBatches == {<<>>, <<20>>, <<10, 20>>}

ErrorBatches == {<<>>, <<1>>, <<1, 2>>}

\* the metrics_data dictionaries handed to process_metrics
Batches ==
    {[cpu_values |-> c, memory_values |-> m, request_counts |-> r, error_counts |-> e] :
        c \in CpuBatches, m \in MemoryBatches, r \in RequestBatches, e \in ErrorBatches}

RECURSIVE Sum(_)
\* sum(values)
Sum(values) == IF values = <<>> THEN 0 ELSE Head(values) + Sum(Tail(values))

RECURSIVE Largest(_)
Largest(values) ==
    IF Len(values) = 1 THEN Head(values) ELSE Max(Head(values), Largest(Tail(values)))

\* np.mean: nan (with a warning, nothing raised) for an empty list
NpMean(values) ==
    IF values = <<>> THEN [nan |-> TRUE, value |-> 0]
    ELSE [nan |-> FALSE, value |-> Sum(values) \div Len(values)]

\* np.max: raises ValueError for an empty list
NpMax(values) ==
    IF values = <<>> THEN [error |-> "ValueError", value |-> 0]
    ELSE [error |-> "none", value |-> Largest(values)]

\* process_metrics(s, metrics_data): the dictionary of lines 77-86 is built in
\* the order of its keys, then check_metric_alerts.delay hands it on; every
\* exception is logged and raised again (lines 95-97)
ProcessMetrics(s, metrics_data) ==
    /\ \E broker_up \in BOOLEAN :
        LET avg_cpu == NpMean(metrics_data.cpu_values)
            max_cpu == NpMax(metrics_data.cpu_values)
            avg_memory == NpMean(metrics_data.memory_values)
            max_memory == NpMax(metrics_data.memory_values)
            error == IF max_cpu.error # "none" THEN max_cpu.error
                     ELSE IF max_memory.error # "none" THEN max_memory.error
                     ELSE IF ~broker_up THEN "OperationalError"
                     ELSE "none"
            built == max_cpu.error = "none" /\ max_memory.error = "none"
        IN  processing' =
                [called |-> TRUE, service_name |-> s, metrics_data |-> metrics_data,
                 outcome |-> IF error = "none" THEN "returned" ELSE "raised",
                 error |-> error,
                 has_summary |-> built,
                 summary |-> IF built
                             THEN [avg_cpu |-> avg_cpu.value, max_cpu |-> max_cpu.value,
                                   avg_memory |-> avg_memory.value,
                                   max_memory |-> max_memory.value,
                                   request_count |-> Sum(metrics_data.request_counts),
                                   error_count |-> Sum(metrics_data.error_counts)]
                             ELSE NoSummary,
                 enqueued |-> built /\ broker_up]
    /\ UNCHANGED <<clock, ticks, k8s_apps_v1, models, last_scaling_times, replicas,
                   result, executed_at, cycle, tasks, running, alerting, training,
                   lifecycle>>

(* -------------------------------- retraining --------------------------- *)

\* the task of the /models/retrain handler on the event loop
RetrainTask == NumHandlers + 1

\* mutant: the two assignments of load_models are separate steps of the loop
LoadModelsYieldsAlways == TRUE

\* whether the loop can run another task between line 160 and line 161:
\* load_models is a plain function without an await, called from the retrain
\* coroutine, and no other thread calls it (retrain_models_scheduled fails in
\* asyncio.create_task before anything runs)
LoadModelsYields == FALSE

\* lines 152-158: a new model and a new scaler are fitted in local variables; an
\* exception is logged (line 165) and nothing is assigned
FitModels ==
    /\ training.pc = "idle"
    /\ training.loads < MaxRetrains
    /\ running = NoHandler
    /\ \E fitted \in BOOLEAN :
        /\ training' = [training EXCEPT
                            !.pc = IF fitted THEN "fitted" ELSE "idle",
                            !.building = training.building + 1,
                            !.loads = training.loads + 1,
                            !.last = IF fitted THEN "running" ELSE "failed",
                            !.prev_model = training.model,
                            !.prev_scaler = training.scaler]
        /\ running' = IF fitted THEN RetrainTask ELSE NoHandler
    /\ UNCHANGED <<clock, ticks, k8s_apps_v1, models, last_scaling_times, replicas,
                   result, executed_at, cycle, tasks, alerting, processing,
                   lifecycle>>

\* line 160: self.models['scaling_predictor'] = model
AssignModel ==
    /\ training.pc = "fitted"
    /\ running \in {RetrainTask, NoHandler}
    /\ training' = [training EXCEPT !.pc = "model_assigned",
                                    !.model = training.building]
    /\ models' = TRUE
    /\ running' = IF LoadModelsYields THEN NoHandler ELSE RetrainTask
    /\ UNCHANGED <<clock, ticks, k8s_apps_v1, last_scaling_times, replicas, result,
                   executed_at, cycle, tasks, alerting, processing, lifecycle>>

\* line 161: self.scalers['scaling_predictor'] = scaler, and the handler returns
AssignScaler ==
    /\ training.pc = "model_assigned"
    /\ running \in {RetrainTask, NoHandler}
    /\ training' = [training EXCEPT !.pc = "idle", !.scaler = training.building,
                                    !.last = "ok"]
    /\ running' = NoHandler
    /\ UNCHANGED <<clock, ticks, k8s_apps_v1, models, last_scaling_times, replicas,
                   result, executed_at, cycle, tasks, alerting, processing,
                   lifecycle>>

\* lines 244-271 of a decide call that the loop runs: with the model's key
\* present (line 244) it reads the model (line 266) and the scaler (line 267)
\* and predicts with them
Inference ==
    /\ running = NoHandler
    /\ models
    /\ training' = [training EXCEPT !.used_model = training.model,
                                    !.used_scaler = training.scaler]
    /\ UNCHANGED <<clock, ticks, k8s_apps_v1, models, last_scaling_times, replicas,
                   result, executed_at, cycle, tasks, running, alerting, processing,
                   lifecycle>>

(* ----------------------------- specifications -------------------------- *)

Next ==
    \/ Tick
    \/ PredictRequest
    \/ PredictRepeated
    \/ PredictScaling
    \/ \E s \in RequestServices : ManualScale(s)
    \/ RetrainModels

Spec == Init /\ [][Next]_vars

LoopNext ==
    \/ Tick
    \/ PeriodicScalingCheck
    \/ CollectMetrics
    \/ Shutdown
    \/ Exit

LoopSpec == Init /\ [][LoopNext]_vars

\* the server under concurrent requests, with the scheduler thread beside it
ServerNext ==
    \/ Tick
    \/ PeriodicScalingCheck
    \/ \E h \in Handlers, s \in RequestServices : Accept(h, s)
    \/ \E h \in Handlers : ReadLastScaling(h)
    \/ \E h \in Handlers : WriteLastScaling(h)
    \/ \E h \in Handlers : SendResponse(h)

ServerSpec == Init /\ [][ServerNext]_vars

\* the worker's alert task, called with any summary
AlertNext == \E s \in AlertServices, metrics \in Summaries : CheckMetricAlerts(s, metrics)

AlertSpec == Init /\ [][AlertNext]_vars

\* the worker's aggregation task, called with any batch
MetricsNext == \E s \in AlertServices, metrics_data \in Batches : ProcessMetrics(s, metrics_data)

MetricsSpec == Init /\ [][MetricsNext]_vars

\* retrains beside decide calls, with time passing
RetrainNext ==
    \/ Tick
    \/ FitModels
    \/ AssignModel
    \/ AssignScaler
    \/ Inference

RetrainSpec == Init /\ [][RetrainNext]_vars

(* --------------------------------- claims ------------------------------ *)

\* a decide call has completed and returned a dictionary
Returned == result # NoCall /\ result.outcome = "returned"

\* the call found the service inside its cooldown window
InCooldown == result.now - result.last_scaling < scaling_cooldown

\* the call invoked scale_deployment
ScaleCalled == result.scale_status # "not_called"

\* the call does not report an execution: "executed" is false, or the dictionary
\* has no such key
NotExecuted == result.executed \in {"false", "absent"}

\* C1: a decide call made while now - last_scaling_time < cooldown window
\* neither calls scale_deployment nor returns executed=true, whatever the
\* confidence and the predicted replica count.
C1_CooldownBlocksExecution ==
    (result # NoCall /\ InCooldown) => (result.executed # "true" /\ ~ScaleCalled)

\* a call inside the cooldown window with the highest confidence and a predicted
\* count that differs from the current one, not executed
C1_Witness ==
    /\ Returned /\ result.path = "normal" /\ InCooldown
    /\ result.confidence = ConfidenceCap
    /\ result.recommended_replicas # result.current_replicas
    /\ result.executed = "false"

\* C2: a decide call whose confidence is below the confidence threshold neither
\* calls scale_deployment nor returns executed=true, for any action.
C2_LowConfidenceBlocksExecution ==
    (Returned /\ result.confidence < confidence_threshold)
        => (result.executed # "true" /\ ~ScaleCalled)

\* a call just below the threshold, outside the cooldown, with a scaling action
C2_Witness ==
    /\ Returned /\ result.path = "normal"
    /\ result.confidence = confidence_threshold - 1
    /\ result.action \in {"scale_up", "scale_down"}
    /\ result.executed = "false"

\* the four conditions of the execution gate, on a returned dictionary
GateOpen ==
    /\ result.action # "none"
    /\ result.confidence >= confidence_threshold
    /\ result.recommended_replicas # result.current_replicas
    /\ ~InCooldown

\* C3: in every decide call that returns, the set-replicas call to the
\* orchestrator (scale_deployment) is made and the result carries executed=true
\* if and only if action != none, confidence >= threshold, predicted != current
\* and the cooldown gate passed; in every other case nothing is dispatched and
\* no execution is reported.
C3_ExecutionGateIff ==
    Returned =>
        IF GateOpen
        THEN ScaleCalled /\ result.executed = "true"
        ELSE ~ScaleCalled /\ NotExecuted

\* a call that passed the four conditions exactly at the confidence threshold,
\* dispatched and reported as executed
C3_Witness ==
    /\ Returned /\ GateOpen
    /\ result.confidence = confidence_threshold
    /\ ScaleCalled /\ result.executed = "true"

\* C4: any two executed decide calls for one service are at least the cooldown
\* window apart.
C4_ExecutionsCooldownApart ==
    \A s \in Services :
        \A i \in 1..(Len(executed_at[s]) - 1) :
            executed_at[s][i + 1] - executed_at[s][i] >= scaling_cooldown

\* a service scaled twice
C4_Witness == \E s \in Services : Len(executed_at[s]) >= 2

\* C5: when a decide call is repeated at once (less than the cooldown window
\* later) for the same service with identical inputs, at most one of the two
\* calls returns executed=true.
C5_RepeatedCallExecutesOnce ==
    [][(/\ result # NoCall /\ result' # NoCall
        /\ result'.service_name = result.service_name
        /\ result'.metrics = result.metrics /\ result'.raw = result.raw
        /\ result'.now - result.now < scaling_cooldown
        /\ result.executed = "true")
       => result'.executed # "true"]_vars

\* the second of two such calls: the first was executed at most a second ago,
\* the gate's other conditions hold again, and the call is not executed
C5_Witness ==
    /\ Returned /\ result.path = "normal"
    /\ Len(executed_at[result.service_name]) >= 1
    /\ result.now - executed_at[result.service_name][Len(executed_at[result.service_name])] <= 1
    /\ result.confidence >= confidence_threshold
    /\ result.recommended_replicas # result.current_replicas
    /\ result.executed = "false"

\* the call changed the service's last_scaling_time
LastScalingChanged == LastScaling(result.service_name) # result.last_scaling

\* C6: a decide call changes the service's last_scaling_time if and only if it
\* successfully dispatched a set-replicas command; a simulated or failed scaling
\* leaves it unchanged.
C6_LastScalingIffDispatched ==
    result # NoCall => (LastScalingChanged <=> result.scale_status = "success")

\* the reason texts predict_scaling_decision can produce; none carries an error
FixedReasons ==
    {"No ML model available", "Current scaling is optimal", "Predicted load increase",
     "Predicted load decrease", "Scaling cooldown period active"}

\* C7: when the orchestrator's set-replicas operation fails in a call that
\* passed all gates, the result has executed=false and a reason that includes
\* the error.
C7_FailedSetNotExecuted ==
    (result # NoCall /\ result.scale_status = "error")
        => (result.executed = "false" /\ result.reason \notin FixedReasons)

\* C8: every returned recommendation has recommended_replicas within [1,10].
C8_RecommendedWithinBounds ==
    Returned => result.recommended_replicas \in MinReplicas..MaxReplicas

\* C9: when the predictor is unavailable (no model loaded, or the prediction
\* raises) the call returns action=none, confidence=0.0, a reason saying so and
\* executed=false, without dispatching and without raising.
C9_PredictorUnavailableHandled ==
    (result # NoCall /\ result.path \in {"no_model", "predict_failed"})
        => /\ result.outcome = "returned"
           /\ result.action = "none"
           /\ result.confidence = 0
           /\ result.reason = "No ML model available"
           /\ NotExecuted
           /\ ~ScaleCalled

\* C10: in a cycle, a failure while starting one service does not keep the other
\* services from being started.
C10_CycleReachesEveryService ==
    cycle.kind # "none" => (Services \ cycle.failed) \subseteq cycle.started

\* a handler stands between its read of last_scaling_times and its write
InProgress(h) == tasks[h].pc = "await_scale"

\* handler h reads (line 291) or writes (line 313) last_scaling_times in this step
Touches(h) == tasks[h].pc \in {"scheduled", "await_scale"} /\ tasks'[h].pc # tasks[h].pc

\* C11: for one service, two decision cycles are never in progress at once:
\* while one cycle stands between its read of last_scaling_time and its write,
\* no other cycle for the same service reads or writes it (the scheduler's ticks
\* run beside the handlers and start no cycle of their own).
C11_DecisionCyclesSerialized ==
    [][\A h1 \in Handlers, h2 \in Handlers :
          (/\ h1 # h2
           /\ InProgress(h1)
           /\ tasks[h2].service_name = tasks[h1].service_name)
          => ~Touches(h2)]_vars

\* one handler between its read and its write while a second request for the
\* same service waits and a scheduler tick has fired
C11_Witness ==
    \E h1 \in Handlers, h2 \in Handlers :
        /\ h1 # h2
        /\ InProgress(h1)
        /\ tasks[h2].pc = "scheduled"
        /\ tasks[h2].service_name = tasks[h1].service_name
        /\ cycle.kind = "scaling_check"

\* the severity of the alert of this type check_metric_alerts built, "none"
\* when it built none
SeverityOf(type) ==
    IF \E i \in 1..Len(alerting.alerts) : alerting.alerts[i].type = type
    THEN alerting.alerts[CHOOSE i \in 1..Len(alerting.alerts) :
                             alerting.alerts[i].type = type].severity
    ELSE "none"

\* C12: check_metric_alerts raises no cpu_high alert when avg_cpu <= 80, one of
\* severity medium when 80 < avg_cpu <= 90 and one of severity critical when
\* avg_cpu > 90.
C12_CpuSeverityBands ==
    alerting.called =>
        SeverityOf("cpu_high") =
            (IF alerting.metrics.avg_cpu <= CpuAlertAbove THEN "none"
             ELSE IF alerting.metrics.avg_cpu <= CpuHighAbove THEN "medium"
             ELSE "critical")

\* C13: check_metric_alerts raises no memory_high alert when avg_memory <= 85,
\* one of severity medium when 85 < avg_memory <= 95 and one of severity high
\* when avg_memory > 95.
C13_MemorySeverityBands ==
    alerting.called =>
        SeverityOf("memory_high") =
            (IF alerting.metrics.avg_memory <= MemoryAlertAbove THEN "none"
             ELSE IF alerting.metrics.avg_memory <= MemoryHighAbove THEN "medium"
             ELSE "high")

\* a summary exactly at 95.0 percent, which is still medium
C13_Witness ==
    /\ alerting.called
    /\ alerting.metrics.avg_memory = MemoryHighAbove
    /\ SeverityOf("memory_high") = "medium"

\* C14: for a summary that carries request_count > 0, with the rate
\* error_count / request_count as a percentage, check_metric_alerts raises no
\* error_rate_high alert when the rate is <= 5%, one of severity high when
\* 5% < rate <= 10% and one of severity critical when the rate is > 10%.
C14_ErrorRateSeverityBands ==
    (/\ alerting.called
     /\ "request_count" \in DOMAIN alerting.metrics
     /\ alerting.metrics.request_count > 0)
        => LET errors == alerting.metrics.error_count * 100
               requests == alerting.metrics.request_count
           IN  SeverityOf("error_rate_high") =
                   (IF errors <= ErrorRateAlertAbove * requests THEN "none"
                    ELSE IF errors <= ErrorRateCriticalAbove * requests THEN "high"
                    ELSE "critical")

\* a summary whose rate is exactly 10 percent, which is still high
C14_Witness ==
    /\ alerting.called
    /\ "request_count" \in DOMAIN alerting.metrics
    /\ alerting.metrics.request_count > 0
    /\ alerting.metrics.error_count * 100
           = ErrorRateCriticalAbove * alerting.metrics.request_count
    /\ SeverityOf("error_rate_high") = "high"

\* C15: the derived error rate is error_count / request_count when
\* request_count > 0 and 0 when request_count is 0 or absent, so a summary with
\* no requests raises no error_rate_high alert and no division error, whatever
\* error_count is.
C15_ErrorRateDerivation ==
    alerting.called =>
        LET requests == Get(alerting.metrics, "request_count", 0)
            errors == alerting.metrics.error_count
            rate == alerting.error_rate
        IN  /\ rate.error = "none"
            /\ IF requests > 0
               THEN rate.num * requests = errors * 100 * rate.den
               ELSE rate.num = 0 /\ SeverityOf("error_rate_high") = "none"

\* C16: when the fetch of the metrics fails, the call does not decide on
\* substituted defaults: it calls no scale_deployment and its result carries the
\* failure as its reason.
C16_FetchFailureNotDefaulted ==
    (result # NoCall /\ result.fetch = "failed")
        => (~ScaleCalled /\ result.outcome = "returned"
            /\ result.reason \notin FixedReasons)

\* C17: a decide call made inside the cooldown window of its service returns
\* action=none, executed=false and the cooldown as its reason, whether the
\* predicted replica count is above, below or equal to the current one.
C17_CooldownForcesNone ==
    (Returned /\ InCooldown)
        => /\ result.action = "none"
           /\ result.executed = "false"
           /\ result.reason = "Scaling cooldown period active"

\* a call inside the cooldown whose predicted count is below the current one
C17_Witness ==
    /\ Returned /\ InCooldown
    /\ result.recommended_replicas < result.current_replicas
    /\ result.action = "none"
    /\ result.reason = "Scaling cooldown period active"

\* C18: outside the cooldown the returned action is scale_up exactly when the
\* clamped predicted count is above the current count, scale_down exactly when
\* it is below, and none exactly when they are equal.
C18_ActionFollowsComparison ==
    (Returned /\ ~InCooldown)
        => /\ result.action = "scale_up"
                <=> result.recommended_replicas > result.current_replicas
           /\ result.action = "scale_down"
                <=> result.recommended_replicas < result.current_replicas
           /\ result.action = "none"
                <=> result.recommended_replicas = result.current_replicas

\* a call outside the cooldown that recommends fewer replicas than there are
C18_Witness ==
    /\ Returned /\ result.path = "normal" /\ ~InCooldown
    /\ result.recommended_replicas < result.current_replicas
    /\ result.action = "scale_down"

\* C19: reading the current replica count never fails the decision: without an
\* orchestrator client, or when the read raises, current_replicas is 1 and the
\* call goes on; it raises only where the prediction itself raised.
C19_ReplicaReadFailsOpen ==
    (result # NoCall /\ result.replica_read \in {"no_client", "raised"})
        => /\ result.current_replicas = 1
           /\ result.outcome = "raised" => result.path = "predict_failed"

\* the read of a deployment that has more than one replica raised, and the call
\* returned a normal recommendation for one current replica
C19_Witness ==
    /\ Returned /\ result.path = "normal"
    /\ result.replica_read = "raised"
    /\ replicas[result.service_name] > 1
    /\ result.current_replicas = 1

\* C20: on each tick of the periodic driver a decision cycle is started for
\* every monitored service: no tick ends with a monitored service for which no
\* decide call ran.
C20_TickDecidesEveryService ==
    cycle.kind = "scaling_check" => cycle.started = Services

C22_NotifierFailureContained ==
    alerting.called =>
        (alerting.outcome = "returned" /\ alerting.sent = Len(alerting.alerts))

\* the batch has no sample at all
EmptyBatch(metrics_data) ==
    /\ metrics_data.cpu_values = <<>>
    /\ metrics_data.memory_values = <<>>
    /\ metrics_data.request_counts = <<>>
    /\ metrics_data.error_counts = <<>>

\* C23: aggregating an empty batch ends as an insufficient-data outcome that
\* skips the service: no summary is produced, no alert evaluation is triggered
\* and nothing is raised.
C23_EmptyBatchSkipped ==
    (processing.called /\ EmptyBatch(processing.metrics_data))
        => /\ processing.outcome # "raised"
           /\ ~processing.has_summary
           /\ ~processing.enqueued

\* C24: no decide call predicts with a model and a scaler of two different
\* training generations, and after a failed retrain the model and the scaler
\* are the pair the retrain found.
C24_ModelSwapAtomic ==
    /\ training.used_model = training.used_scaler
    /\ training.last = "failed"
           => /\ training.model = training.prev_model
              /\ training.scaler = training.prev_scaler

\* an inference used a retrained pair, and a later retrain failed and left that
\* pair in place
C24_Witness ==
    /\ training.used_model >= 1
    /\ training.last = "failed"
    /\ training.model = training.used_model

\* C25: once the shutdown signal is given, the scheduling loop starts no new
\* cycle.
C25_NoCycleAfterShutdown ==
    [][(lifecycle = "stopping" /\ cycle' # cycle)
           => cycle'.kind # "scaling_check"]_vars

\* the alerts of this type check_metric_alerts built
AlertsOf(type) == {i \in 1..Len(alerting.alerts) : alerting.alerts[i].type = type}

\* C26: one evaluation emits at most one alert of each kind, each kind decided
\* by its own threshold alone, and hands exactly one notification to the
\* notifier for each alert it emitted.
C26_OneAlertAndNotificationPerKind ==
    alerting.called =>
        /\ \A type \in {"cpu_high", "memory_high", "error_rate_high"} :
               Cardinality(AlertsOf(type)) <= 1
        /\ AlertsOf("cpu_high") # {} <=> alerting.metrics.avg_cpu > CpuAlertAbove
        /\ AlertsOf("memory_high") # {} <=> alerting.metrics.avg_memory > MemoryAlertAbove
        /\ AlertsOf("error_rate_high") # {}
               <=> RateAbove(alerting.error_rate, ErrorRateAlertAbove)
        /\ alerting.sent = Len(alerting.alerts)

\* the step is a decide call for service a
DecidesFor(a) == result' # NoCall /\ result' # result /\ result'.service_name = a

\* C27: a decide call for service A leaves last_scaling_time of every other
\* service B as it was (no entry stays no entry), so an executed scaling of A
\* never puts B into cooldown.
C27_OtherServicesUntouched ==
    [][\A a \in Services, b \in Services :
          (a # b /\ DecidesFor(a))
          => /\ (b \in DOMAIN last_scaling_times') <=> (b \in DOMAIN last_scaling_times)
             /\ LastScaling(b)' = LastScaling(b)
             /\ CooldownActive(b, clock)' => CooldownActive(b, clock)]_vars

\* a scaling of one service was executed while another service has no entry
\* and is outside any cooldown
C27_Witness ==
    /\ Returned /\ result.executed = "true"
    /\ \E b \in RequestServices :
          /\ b # result.service_name
          /\ b \notin DOMAIN last_scaling_times
          /\ ~CooldownActive(b, clock)

\* C28: the set of services with a recorded last_scaling_time only grows and
\* the last_scaling_time of a service never decreases.
C28_LastScalingMonotonic ==
    [][/\ DOMAIN last_scaling_times \subseteq DOMAIN last_scaling_times'
       /\ \A s \in DOMAIN last_scaling_times :
              last_scaling_times'[s] >= last_scaling_times[s]]_vars

\* two services have an entry and one of them was scaled a second time, later
C28_Witness ==
    /\ Cardinality(DOMAIN last_scaling_times) >= 2
    /\ \E s \in DOMAIN last_scaling_times :
          /\ Len(executed_at[s]) >= 2
          /\ last_scaling_times[s] > executed_at[s][1]

\* the call is the first for its service that could have been executed: no
\* scaling of the service was executed before it
NeverScaledBefore ==
    Len(executed_at[result.service_name]) = (IF result.executed = "true" THEN 1 ELSE 0)

\* C29: for a service with no executed scaling so far the cooldown gate is not
\* active: the decision is executed exactly when the confidence and the
\* replica-delta gates pass.
C29_NoCooldownBeforeFirstScaling ==
    (Returned /\ result.path = "normal" /\ NeverScaledBefore)
        => /\ result.reason # "Scaling cooldown period active"
           /\ result.executed = "true"
                <=> (/\ result.confidence >= confidence_threshold
                     /\ result.recommended_replicas # result.current_replicas)

\* the first scaling of a service, executed long after the process started and
\* after another service was scaled
C29_Witness ==
    /\ Returned /\ result.path = "normal" /\ NeverScaledBefore
    /\ result.executed = "true"
    /\ result.now > StartTime
    /\ \E b \in DOMAIN last_scaling_times : b # result.service_name

\* C30: a manual scale request goes to the orchestrator whatever the cooldown
\* and the confidence are and leaves every last_scaling_time unchanged, so it
\* does not put the service into cooldown for the decisions that follow.
C30_ManualScaleKeepsLastScaling ==
    [][\A s \in RequestServices :
          ManualScale(s)
          => /\ last_scaling_times' = last_scaling_times
             /\ CooldownActive(s, clock)' = CooldownActive(s, clock)]_vars

\* an automatic decision right after a manual scaling to 11 replicas (a count
\* only /scale can set), executed
C30_Witness ==
    /\ Returned /\ result.path = "normal"
    /\ result.current_replicas = 11
    /\ result.executed = "true"

====
